---- MODULE Spec2Model ----
(***************************************************************************)
(* Model of src/src/06-objects-tasks.js: the CSSSelectorBuilder class, the *)
(* cssSelectorBuilder facade and the Rectangle helper.                     *)
(*                                                                         *)
(* A JavaScript string is a sequence of one-character strings, so that     *)
(* concatenation (+=, template literals) is \o and prefixes/separators are *)
(* visible to the properties.  The heap is the sequence of all             *)
(* CSSSelectorBuilder objects created so far; an object reference is its   *)
(* index in the heap.                                                      *)
(***************************************************************************)
EXTENDS Integers, Sequences, FiniteSets, TLC

\* ------------------------------------------------------------------ bounds
MaxInst == 2           \* builder objects created in one run of Spec
MaxCalls == 3          \* calls made in one run of Spec
MaxCombineInst == 4    \* builder objects created in one run of SpecCombine
MaxCombineCalls == 5   \* calls made in one run of SpecCombine
MaxReuseInst == 3      \* builder objects created in one run of SpecReuse
MaxReuseCalls == 4     \* calls made in one run of SpecReuse
MaxSide == 2           \* largest absolute value of a Rectangle side

\* ------------------------------------------------------------------ inputs
Values == {<<"a">>, <<"b">>}
CombineValues == {<<"a">>}
Combinators == {<<"+">>, <<" ">>}
Sides == (0 - MaxSide)..MaxSide

\* ------------------------------------------------- errors and the null value
NoError == "none"
UniquenessError == "UniquenessError"
OrderError == "OrderError"
Null == 0 - 1

VARIABLES
  heap,     \* Seq of builder objects: string, exists* flags, weight
  last,     \* the most recent builder call: what was called, what came back
  log,      \* per object, the calls that completed on it, oldest first
  calls,    \* number of builder calls made
  throws,   \* per object, the number of calls on it that threw
  rect,     \* the object returned by the most recent Rectangle call
  rcall     \* the most recent Rectangle-related call and its result

vars == <<heap, last, log, calls, throws, rect, rcall>>

\* ------------------------------------------------------ CSSSelectorBuilder
NewBuilder ==
  [string |-> <<>>, existsElement |-> FALSE, existsId |-> FALSE,
   existsPseudoElement |-> FALSE, weight |-> Null]

\* the outcome of a method on heap h: the error thrown (or none), the heap
\* after, and the reference returned
Throw(h, e) == [err |-> e, heap |-> h, ret |-> 0]
Return(h, r) == [err |-> NoError, heap |-> h, ret |-> r]

\* ToNumber, as the relational operator < applies it to this.weight
ToNumber(w) == IF w = Null THEN 0 ELSE w

checkIfDuplicateNever(h, self, selectorType) == FALSE

\* TRUE iff checkIfDuplicate throws
checkIfDuplicate(h, self, selectorType) ==
  LET isDuplicate ==
        IF selectorType = "element" THEN h[self].existsElement
        ELSE IF selectorType = "id" THEN h[self].existsId
        ELSE IF selectorType = "pseudo-element" THEN h[self].existsPseudoElement
        ELSE FALSE
  IN isDuplicate

checkSelectorWeightNoThrow(h, self, weight) ==
  Return([h EXCEPT ![self].weight = weight], 0)

checkSelectorWeightStrict(h, self, weight) ==
  IF weight <= ToNumber(h[self].weight)
  THEN Throw(h, OrderError)
  ELSE Return([h EXCEPT ![self].weight = weight], 0)

checkSelectorWeightAssignsFirst(h, self, weight) ==
  IF weight < ToNumber(h[self].weight)
  THEN Throw([h EXCEPT ![self].weight = weight], OrderError)
  ELSE Return([h EXCEPT ![self].weight = weight], 0)

checkSelectorWeight(h, self, weight) ==
  IF weight < ToNumber(h[self].weight)
  THEN Throw(h, OrderError)
  ELSE Return([h EXCEPT ![self].weight = weight], 0)

setValueSelectorLast(h, self, value, selector) ==
  [h EXCEPT ![self].string = @ \o value \o selector]

setValue(h, self, value, selector) ==
  [h EXCEPT ![self].string = @ \o selector \o value]

elementWeightFirst(h, self, value) ==
  LET w == checkSelectorWeight(h, self, 1) IN
  IF w.err # NoError THEN Throw(h, w.err)
  ELSE IF checkIfDuplicate(h, self, "element") THEN Throw(h, UniquenessError)
  ELSE Return(setValue([w.heap EXCEPT ![self].existsElement = TRUE],
                       self, value, <<>>), self)

element(h, self, value) ==
  IF checkIfDuplicate(h, self, "element") THEN Throw(h, UniquenessError)
  ELSE LET w == checkSelectorWeight(h, self, 1) IN
       IF w.err # NoError THEN Throw(w.heap, w.err)
       ELSE Return(setValue([w.heap EXCEPT ![self].existsElement = TRUE],
                            self, value, <<>>), self)

id(h, self, value) ==
  IF checkIfDuplicate(h, self, "id") THEN Throw(h, UniquenessError)
  ELSE LET w == checkSelectorWeight(h, self, 10) IN
       IF w.err # NoError THEN Throw(w.heap, w.err)
       ELSE Return(setValue([w.heap EXCEPT ![self].existsId = TRUE],
                            self, value, <<"#">>), self)

classReturnsCopy(h, self, value) ==
  LET w == checkSelectorWeight(h, self, 100) IN
  IF w.err # NoError THEN Throw(w.heap, w.err)
  ELSE Return(setValue(Append(h, w.heap[self]), Len(h) + 1, value, <<".">>),
              Len(h) + 1)

class(h, self, value) ==
  LET w == checkSelectorWeight(h, self, 100) IN
  IF w.err # NoError THEN Throw(w.heap, w.err)
  ELSE Return(setValue(w.heap, self, value, <<".">>), self)

attr(h, self, value) ==
  LET w == checkSelectorWeight(h, self, 1000) IN
  IF w.err # NoError THEN Throw(w.heap, w.err)
  ELSE Return(setValue(w.heap, self, <<"[">> \o value \o <<"]">>, <<>>), self)

pseudoClass(h, self, value) ==
  LET w == checkSelectorWeight(h, self, 10000) IN
  IF w.err # NoError THEN Throw(w.heap, w.err)
  ELSE Return(setValue(w.heap, self, value, <<":">>), self)

pseudoElement(h, self, value) ==
  IF checkIfDuplicate(h, self, "pseudo-element") THEN Throw(h, UniquenessError)
  ELSE LET w == checkSelectorWeight(h, self, 100000) IN
       IF w.err # NoError THEN Throw(w.heap, w.err)
       ELSE Return(setValue([w.heap EXCEPT ![self].existsPseudoElement = TRUE],
                            self, value, <<":", ":">>), self)

stringifyKeepsString(h, self) == [ret |-> h[self].string, heap |-> h]

stringifyResetsAll(h, self) ==
  [ret |-> h[self].string, heap |-> [h EXCEPT ![self] = NewBuilder]]

\* stringify: the string it returns and the heap after
stringify(h, self) ==
  [ret |-> h[self].string, heap |-> [h EXCEPT ![self].string = <<>>]]

combineRightFirst(h, self, selector1, combinator, selector2) ==
  LET r1 == stringify(h, selector1)
      r2 == stringify(r1.heap, selector2)
  IN Return(setValue(r2.heap, self,
                     r2.ret \o <<" ">> \o combinator \o <<" ">> \o r1.ret, <<>>),
            self)

combineCopiesRank(h, self, selector1, combinator, selector2) ==
  LET r1 == stringify(h, selector1)
      r2 == stringify(r1.heap, selector2)
      g == setValue(r2.heap, self,
                    r1.ret \o <<" ">> \o combinator \o <<" ">> \o r2.ret, <<>>)
  IN Return([g EXCEPT ![self].weight = h[selector1].weight,
                      ![self].existsElement = h[selector1].existsElement,
                      ![self].existsId = h[selector1].existsId],
            self)

combineRendersBeforeDraining(h, self, selector1, combinator, selector2) ==
  LET r1 == stringify(h, selector1)
      r2 == stringify(h, selector2)
      d == [r1.heap EXCEPT ![selector2].string = <<>>]
  IN Return(setValue(d, self,
                     r1.ret \o <<" ">> \o combinator \o <<" ">> \o r2.ret, <<>>),
            self)

\* combine: the argument of setValue is evaluated first (selector1.stringify(),
\* then selector2.stringify()), then this.string grows
combine(h, self, selector1, combinator, selector2) ==
  LET r1 == stringify(h, selector1)
      r2 == stringify(r1.heap, selector2)
  IN Return(setValue(r2.heap, self,
                     r1.ret \o <<" ">> \o combinator \o <<" ">> \o r2.ret, <<>>),
            self)

createObjectShared == IF heap = <<>> THEN NewBuilder ELSE heap[1]

\* cssSelectorBuilder.createObject: the state of the object it returns
createObject == NewBuilder

\* ----------------------------------------------------------------- Rectangle
\* the object r, and the parameters the closure getArea was created over
Rectangle(width, height) ==
  [width |-> width, height |-> height,
   scope |-> [width |-> width, height |-> height]]

getAreaOfArguments(this) == this.scope.width * this.scope.height

getArea(this) == this.width * this.height

\* --------------------------------------------------------------- the calls
NoCall ==
  [op |-> "none", facade |-> FALSE, self |-> 0, s1 |-> 0, s2 |-> 0,
   arg |-> <<>>, err |-> NoError, ret |-> 0, out |-> <<>>]

Entry(op, arg) == [op |-> op, arg |-> arg]

\* the log l, one (possibly empty) sequence per object of a heap of n objects
Grown(l, n) == [j \in 1..n |-> IF j <= Len(l) THEN l[j] ELSE <<>>]

\* the counts t, one per object of a heap of n objects
GrownCounts(t, n) == [j \in 1..n |-> IF j <= Len(t) THEN t[j] ELSE 0]

\* the counts after a call on the object i of a heap of n objects
Counted(t, n, i, err) ==
  IF err = NoError THEN GrownCounts(t, n)
  ELSE [GrownCounts(t, n) EXCEPT ![i] = @ + 1]

\* a builder method op(value), called on the object i, with outcome res
Method(i, op, value, res) ==
  /\ heap' = res.heap
  /\ last' = [NoCall EXCEPT !.op = op, !.self = i, !.arg = value,
                            !.err = res.err, !.ret = res.ret]
  /\ log' = IF res.err = NoError
            THEN [Grown(log, Len(res.heap)) EXCEPT ![i] = Append(@, Entry(op, value))]
            ELSE log
  /\ calls' = calls + 1
  /\ throws' = Counted(throws, Len(res.heap), i, res.err)
  /\ UNCHANGED <<rect, rcall>>

\* a facade entry point op(value): the method on the object createObject made,
\* which is the last one of the heap h that res was computed from
Facade(op, value, res) ==
  LET i == Len(heap) + 1 IN
  /\ heap' = res.heap
  /\ last' = [NoCall EXCEPT !.op = op, !.facade = TRUE, !.self = i, !.arg = value,
                            !.err = res.err, !.ret = res.ret]
  /\ log' = IF res.err = NoError
            THEN [Grown(log, Len(res.heap)) EXCEPT ![i] = Append(@, Entry(op, value))]
            ELSE Grown(log, Len(res.heap))
  /\ calls' = calls + 1
  /\ throws' = Counted(throws, Len(res.heap), i, res.err)
  /\ UNCHANGED <<rect, rcall>>

\* the heap after createObject, and the reference to the new object
Created == Append(heap, createObject)
New == Len(heap) + 1

Element(i, v) == Method(i, "element", v, element(heap, i, v))
Id(i, v) == Method(i, "id", v, id(heap, i, v))
Class(i, v) == Method(i, "class", v, class(heap, i, v))
Attr(i, v) == Method(i, "attr", v, attr(heap, i, v))
PseudoClass(i, v) == Method(i, "pseudoClass", v, pseudoClass(heap, i, v))
PseudoElement(i, v) == Method(i, "pseudoElement", v, pseudoElement(heap, i, v))

Stringify(i) ==
  LET r == stringify(heap, i) IN
  /\ heap' = r.heap
  /\ last' = [NoCall EXCEPT !.op = "stringify", !.self = i, !.out = r.ret]
  /\ log' = [log EXCEPT ![i] = Append(@, Entry("stringify", <<>>))]
  /\ calls' = calls + 1
  /\ UNCHANGED <<throws, rect, rcall>>

\* the log after combine: each operand was rendered, then self grew
CombineLog(l, self, s1, c, s2) ==
  LET l1 == [l EXCEPT ![s1] = Append(@, Entry("stringify", <<>>))]
      l2 == [l1 EXCEPT ![s2] = Append(@, Entry("stringify", <<>>))]
  IN [l2 EXCEPT ![self] = Append(@, Entry("combine", c))]

Combine(i, s1, c, s2) ==
  LET res == combine(heap, i, s1, c, s2) IN
  /\ heap' = res.heap
  /\ last' = [NoCall EXCEPT !.op = "combine", !.self = i, !.s1 = s1, !.s2 = s2,
                            !.arg = c, !.err = res.err, !.ret = res.ret]
  /\ log' = CombineLog(log, i, s1, c, s2)
  /\ calls' = calls + 1
  /\ throws' = Counted(throws, Len(res.heap), i, res.err)
  /\ UNCHANGED <<rect, rcall>>

FacadeElement(v) == Facade("element", v, element(Created, New, v))
FacadeId(v) == Facade("id", v, id(Created, New, v))
FacadeClass(v) == Facade("class", v, class(Created, New, v))
FacadeAttr(v) == Facade("attr", v, attr(Created, New, v))
FacadePseudoClass(v) == Facade("pseudoClass", v, pseudoClass(Created, New, v))
FacadePseudoElement(v) == Facade("pseudoElement", v, pseudoElement(Created, New, v))

FacadeCombine(s1, c, s2) ==
  LET res == combine(Created, New, s1, c, s2) IN
  /\ heap' = res.heap
  /\ last' = [NoCall EXCEPT !.op = "combine", !.facade = TRUE, !.self = New,
                            !.s1 = s1, !.s2 = s2, !.arg = c,
                            !.err = res.err, !.ret = res.ret]
  /\ log' = CombineLog(Grown(log, New), New, s1, c, s2)
  /\ calls' = calls + 1
  /\ throws' = Counted(throws, Len(res.heap), New, res.err)
  /\ UNCHANGED <<rect, rcall>>

\* new Rectangle(w, h)
NewRectangle(w, h) ==
  /\ rect' = Rectangle(w, h)
  /\ rcall' = [op |-> "Rectangle", width |-> w, height |-> h, ret |-> 0]
  /\ UNCHANGED <<heap, last, log, calls, throws>>

\* r.width = w, by the caller that holds the object
SetWidth(w) ==
  /\ rect' = [rect EXCEPT !.width = w]
  /\ rcall' = [op |-> "set", width |-> w, height |-> rect.height, ret |-> 0]
  /\ UNCHANGED <<heap, last, log, calls, throws>>

\* r.height = h, by the caller that holds the object
SetHeight(h) ==
  /\ rect' = [rect EXCEPT !.height = h]
  /\ rcall' = [op |-> "set", width |-> rect.width, height |-> h, ret |-> 0]
  /\ UNCHANGED <<heap, last, log, calls, throws>>

\* r.getArea()
GetArea ==
  /\ rcall' = [op |-> "getArea", width |-> rect.width, height |-> rect.height,
               ret |-> getArea(rect)]
  /\ UNCHANGED <<heap, last, log, calls, throws, rect>>

\* ------------------------------------------------------------ specifications
Objects == 1..Len(heap)

InitBuilder ==
  /\ heap = <<>>
  /\ last = NoCall
  /\ log = <<>>
  /\ calls = 0
  /\ throws = <<>>

Init ==
  /\ InitBuilder
  /\ rect = Rectangle(0, 0)
  /\ rcall = [op |-> "Rectangle", width |-> 0, height |-> 0, ret |-> 0]

\* the bounds of one run of Spec
MayCall == calls < MaxCalls
MayCreate == calls < MaxCalls /\ Len(heap) < MaxInst

\* every method of the class and every entry point of the facade
Next ==
  \/ \E i \in Objects, v \in Values : MayCall /\ Element(i, v)
  \/ \E i \in Objects, v \in Values : MayCall /\ Id(i, v)
  \/ \E i \in Objects, v \in Values : MayCall /\ Class(i, v)
  \/ \E i \in Objects, v \in Values : MayCall /\ Attr(i, v)
  \/ \E i \in Objects, v \in Values : MayCall /\ PseudoClass(i, v)
  \/ \E i \in Objects, v \in Values : MayCall /\ PseudoElement(i, v)
  \/ \E i \in Objects : MayCall /\ Stringify(i)
  \/ \E i \in Objects, s1 \in Objects, s2 \in Objects, c \in Combinators :
       MayCall /\ Combine(i, s1, c, s2)
  \/ \E v \in Values : MayCreate /\ FacadeElement(v)
  \/ \E v \in Values : MayCreate /\ FacadeId(v)
  \/ \E v \in Values : MayCreate /\ FacadeClass(v)
  \/ \E v \in Values : MayCreate /\ FacadeAttr(v)
  \/ \E v \in Values : MayCreate /\ FacadePseudoClass(v)
  \/ \E v \in Values : MayCreate /\ FacadePseudoElement(v)
  \/ \E s1 \in Objects, s2 \in Objects, c \in Combinators :
       MayCreate /\ FacadeCombine(s1, c, s2)

Spec == Init /\ [][Next]_vars

\* the bounds of one run of SpecCombine
MayCallCombine == calls < MaxCombineCalls
MayCreateCombine == calls < MaxCombineCalls /\ Len(heap) < MaxCombineInst

\* selectors made by the facade, extended by class, combined by the facade
\* and rendered
NextCombine ==
  \/ \E v \in CombineValues : MayCreateCombine /\ FacadeElement(v)
  \/ \E v \in CombineValues : MayCreateCombine /\ FacadeClass(v)
  \/ \E s1 \in Objects, s2 \in Objects, c \in Combinators :
       MayCreateCombine /\ FacadeCombine(s1, c, s2)
  \/ \E i \in Objects, v \in CombineValues : MayCallCombine /\ Class(i, v)
  \/ \E i \in Objects : MayCallCombine /\ Stringify(i)

SpecCombine == Init /\ [][NextCombine]_vars

\* the bounds of one run of SpecReuse
MayCallReuse == calls < MaxReuseCalls
MayCreateReuse == calls < MaxReuseCalls /\ Len(heap) < MaxReuseInst

\* selectors made by the facade, combined by the facade's combine and by the
\* method combine of any object, operands used again, and rendered
NextReuse ==
  \/ \E v \in CombineValues : MayCreateReuse /\ FacadeElement(v)
  \/ \E v \in CombineValues : MayCreateReuse /\ FacadeId(v)
  \/ \E s1 \in Objects, s2 \in Objects, c \in Combinators :
       MayCreateReuse /\ FacadeCombine(s1, c, s2)
  \/ \E i \in Objects, s1 \in Objects, s2 \in Objects, c \in Combinators :
       MayCallReuse /\ Combine(i, s1, c, s2)
  \/ \E i \in Objects : MayCallReuse /\ Stringify(i)

SpecReuse == Init /\ [][NextReuse]_vars

\* one Rectangle object, its fields written by its holder, its area read
InitRect ==
  /\ InitBuilder
  /\ \E w \in Sides, h \in Sides :
       /\ rect = Rectangle(w, h)
       /\ rcall = [op |-> "Rectangle", width |-> w, height |-> h, ret |-> 0]

NextRect ==
  \/ \E w \in Sides, h \in Sides : NewRectangle(w, h)
  \/ \E w \in Sides : SetWidth(w)
  \/ \E h \in Sides : SetHeight(h)
  \/ GetArea

SpecRect == InitRect /\ [][NextRect]_vars

\* ------------------------------------------------ vocabulary of the properties
AppendOps == {"element", "id", "class", "attr", "pseudoClass", "pseudoElement"}
SingleOps == {"element", "id", "pseudoElement"}
RepeatOps == {"class", "attr", "pseudoClass"}
CategoryOrder == <<"element", "id", "class", "attr", "pseudoClass", "pseudoElement">>

\* the rank of a category: its position in the mandated order
Rank(op) == CHOOSE k \in 1..6 : CategoryOrder[k] = op

\* the text one append contributes
Fragment(op, v) ==
  CASE op = "element" -> v
    [] op = "id" -> <<"#">> \o v
    [] op = "class" -> <<".">> \o v
    [] op = "attr" -> <<"[">> \o v \o <<"]">>
    [] op = "pseudoClass" -> <<":">> \o v
    [] op = "pseudoElement" -> <<":", ":">> \o v

IsAppend(e) == e.op \in AppendOps
Appends(l) == SelectSeq(l, IsAppend)
OfCategory(l, op) == SelectSeq(l, LAMBDA e : e.op = op)
HasAppended(l, op) == OfCategory(l, op) # <<>>

\* the rank of the most recent successful append in the log l, 0 if none
PriorRank(l) ==
  LET a == Appends(l) IN IF a = <<>> THEN 0 ELSE Rank(a[Len(a)].op)

RECURSIVE Fragments(_)
Fragments(l) ==
  IF l = <<>> THEN <<>> ELSE Fragment(l[1].op, l[1].arg) \o Fragments(Tail(l))

\* the selector text in the fixed category order, each category in insertion order
Canonical(l) ==
  Fragments(OfCategory(l, "element")) \o Fragments(OfCategory(l, "id"))
    \o Fragments(OfCategory(l, "class")) \o Fragments(OfCategory(l, "attr"))
    \o Fragments(OfCategory(l, "pseudoClass"))
    \o Fragments(OfCategory(l, "pseudoElement"))

\* this step is a call / a method call on an existing object / a facade call
IsCall == calls' = calls + 1
IsMethodAppend == IsCall /\ last'.op \in AppendOps /\ ~last'.facade
IsFacadeAppend == IsCall /\ last'.op \in AppendOps /\ last'.facade
IsStringify == IsCall /\ last'.op = "stringify"
Failed == last'.err # NoError /\ heap' = heap /\ log' = log

\* ------------------------------------------------------------------------ C1
\* C1: an append whose category rank is strictly lower than the rank of the
\* object's most recent successful append throws and appends nothing.
C1_LowerRankAppendFails ==
  [][(IsMethodAppend /\ Rank(last'.op) < PriorRank(log[last'.self])) => Failed]_vars

\* class after attr was refused with the order error
C1_Witness ==
  /\ last.op = "class" /\ last.err = OrderError
  /\ Appends(log[last.self]) # <<>>
  /\ Appends(log[last.self])[Len(Appends(log[last.self]))].op = "attr"

\* ------------------------------------------------------------------------ C2
\* C2: element, id and pseudoElement each succeed at most once per object,
\* renders in between or not; every later attempt throws the uniqueness error.
C2_SingletonOnce ==
  [][/\ (IsMethodAppend /\ last'.op \in SingleOps
                        /\ HasAppended(log[last'.self], last'.op))
         => (last'.err = UniquenessError /\ Failed)
     /\ \A i \in 1..Len(log') : \A op \in SingleOps :
          Len(OfCategory(log'[i], op)) <= 1]_vars

\* a second id, after a render, was refused with the uniqueness error
C2_Witness ==
  /\ last.op = "id" /\ last.err = UniquenessError
  /\ log[last.self] = <<Entry("id", log[last.self][1].arg), Entry("stringify", <<>>)>>

\* ------------------------------------------------------------------------ C3
\* C3: the first render of an object that had only appends returns the
\* fragments in the fixed category order, each category in insertion order.
C3_FirstRenderCanonical ==
  [][(IsStringify /\ Appends(log[last'.self]) = log[last'.self])
       => last'.out = Canonical(log[last'.self])]_vars

\* two classes with different tokens were rendered in insertion order
C3_Witness ==
  /\ last.op = "stringify"
  /\ log[last.self] = <<Entry("class", <<"b">>), Entry("class", <<"a">>),
                        Entry("stringify", <<>>)>>
  /\ last.out = <<".", "b", ".", "a">>

\* ------------------------------------------------------------------------ C4
\* C4: the facade's combine of two distinct operands makes a value whose text
\* is render(left) + ' ' + combinator + ' ' + render(right), nested or not,
\* where a render returns the text the object holds.
C4_CombineText ==
  [][/\ (IsCall /\ last'.op = "combine" /\ last'.facade /\ last'.s1 # last'.s2)
        => /\ last'.err = NoError
           /\ heap'[last'.ret].string =
                heap[last'.s1].string \o <<" ">> \o last'.arg \o <<" ">>
                  \o heap[last'.s2].string
     /\ IsStringify => last'.out = heap[last'.self].string]_vars

\* combine(.a, ' ', combine(a, '+', .a)): three spaces, nested right operand
C4_Witness ==
  /\ last.op = "combine" /\ last.facade /\ last.arg = <<" ">>
  /\ last.s1 # last.s2
  /\ log[last.s2][1].op = "combine"
  /\ heap[last.ret].string =
       <<".", "a", " ", " ", " ", "a", " ", "+", " ", ".", "a">>

\* ------------------------------------------------------------------------ C5
\* C5: a render right after a render of the same object, nothing completed on
\* the object in between, returns the empty string.
C5_SecondRenderEmpty ==
  [][(IsStringify /\ log[last'.self] # <<>>
        /\ log[last'.self][Len(log[last'.self])].op = "stringify")
       => last'.out = <<>>]_vars

\* append, render, render: the second render returned ''
C5_Witness ==
  /\ last.op = "stringify" /\ last.out = <<>>
  /\ Len(log[last.self]) = 3
  /\ IsAppend(log[last.self][1])
  /\ log[last.self][2].op = "stringify"

\* ------------------------------------------------------------------------ C6
\* C6: render clears the text and nothing else: flags and weight stay, so
\* after a render a repeated singleton still throws the uniqueness error and
\* a lower-rank category still throws the order error.
C6_RenderKeepsFlagsAndRank ==
  [][/\ IsStringify =>
          heap' = [heap EXCEPT ![last'.self].string = <<>>]
     /\ (IsMethodAppend /\ log[last'.self] # <<>>
           /\ log[last'.self][Len(log[last'.self])].op = "stringify")
        => /\ (last'.op \in SingleOps /\ HasAppended(log[last'.self], last'.op))
                => last'.err = UniquenessError
           /\ (Rank(last'.op) < PriorRank(log[last'.self])
                 /\ ~(last'.op \in SingleOps /\ HasAppended(log[last'.self], last'.op)))
                => last'.err = OrderError]_vars

\* attr, render, class: the class was refused with the order error
C6_Witness ==
  /\ last.op = "class" /\ last.err = OrderError
  /\ Len(log[last.self]) = 2
  /\ log[last.self][1].op = "attr"
  /\ log[last.self][2].op = "stringify"
  /\ heap[last.self].string = <<>>

\* ------------------------------------------------------------------------ C7
\* C7: class, attr and pseudoClass succeed whenever the object's rank is at
\* most the category's rank, however often they were appended before; a
\* repeat of element, id or pseudoElement at equal rank is refused.
C7_Repeatable ==
  [][/\ (IsMethodAppend /\ last'.op \in RepeatOps
           /\ PriorRank(log[last'.self]) <= Rank(last'.op))
        => /\ last'.err = NoError
           /\ heap'[last'.self].string =
                heap[last'.self].string \o Fragment(last'.op, last'.arg)
     /\ (IsMethodAppend /\ last'.op \in SingleOps
           /\ PriorRank(log[last'.self]) = Rank(last'.op))
        => last'.err # NoError]_vars

\* the same repeatable category was appended three times to one object
C7_Witness ==
  /\ last.op \in RepeatOps /\ last.err = NoError
  /\ Len(OfCategory(log[last.self], last.op)) = 3

\* ------------------------------------------------------------------------ C8
\* C8: every facade entry point works on a fresh object (empty text, no
\* flags, no rank) and never fails; appends and renders on one object leave
\* every other object as it was.
C8_FreshAndIsolated ==
  [][/\ IsFacadeAppend =>
          /\ last'.err = NoError
          /\ heap' = Append(heap,
               [string |-> Fragment(last'.op, last'.arg),
                existsElement |-> last'.op = "element",
                existsId |-> last'.op = "id",
                existsPseudoElement |-> last'.op = "pseudoElement",
                weight |-> 10 ^ (Rank(last'.op) - 1)])
     /\ (IsCall /\ last'.op = "combine" /\ last'.facade) =>
          /\ Len(heap') = Len(heap) + 1
          /\ ~heap'[last'.self].existsElement
          /\ ~heap'[last'.self].existsId
          /\ ~heap'[last'.self].existsPseudoElement
          /\ heap'[last'.self].weight = Null
     /\ (IsMethodAppend \/ IsStringify) =>
          /\ Len(heap') = Len(heap)
          /\ \A j \in 1..Len(heap) : j # last'.self => heap'[j] = heap[j]]_vars

\* the facade's element succeeded while another object already had an element
C8_Witness ==
  /\ last.op = "element" /\ last.facade /\ last.err = NoError
  /\ last.self = 2
  /\ heap[1].existsElement /\ heap[2].existsElement

\* ------------------------------------------------------------------------ C9
\* C9: every successful append, and combine, returns the object it was
\* called on, and the text accumulates on that object.
C9_ReturnsThis ==
  [][(IsCall /\ last'.op \in AppendOps \cup {"combine"} /\ last'.err = NoError)
       => /\ last'.ret = last'.self
          /\ last'.op \in AppendOps =>
               heap'[last'.self].string =
                 (IF last'.facade THEN <<>> ELSE heap[last'.self].string)
                   \o Fragment(last'.op, last'.arg)]_vars

\* a chain of three appends on one object: its text holds all three
C9_Witness ==
  /\ last.op = "class" /\ last.err = NoError /\ last.ret = last.self
  /\ Len(log[last.self]) = 3
  /\ heap[last.self].string = Fragments(log[last.self])

\* ----------------------------------------------------------------------- C10
\* C10: Rectangle(w, h) has width = w and height = h, and getArea() returns
\* the product of the fields as they are when it is called.
C10_RectangleArea ==
  /\ rcall.op = "Rectangle" =>
       (rect.width = rcall.width /\ rect.height = rcall.height)
  /\ rcall.op = "getArea" => rcall.ret = rect.width * rect.height

\* getArea was called after a field was changed from its constructed value
C10_Witness ==
  /\ rcall.op = "getArea"
  /\ rect.width # rect.scope.width
  /\ rcall.ret # rect.scope.width * rect.scope.height

\* the rank an object holds: the position of its weight, 0 while it is null
WeightRank(w) == IF w = Null THEN 0 ELSE CHOOSE k \in 1..6 : 10 ^ (k - 1) = w

\* ----------------------------------------------------------------------- C11
\* C11: no transition lowers the rank of any object (successful or failed
\* append, render, combine, being a combine operand), and after a successful
\* append of a category the object's rank is that category's rank.
C11_RankNeverDecreases ==
  [][/\ \A j \in 1..Len(heap) :
          /\ j <= Len(heap')
          /\ WeightRank(heap'[j].weight) >= WeightRank(heap[j].weight)
     /\ (IsCall /\ last'.op \in AppendOps /\ last'.err = NoError)
        => WeightRank(heap'[last'.self].weight) = Rank(last'.op)]_vars

\* an append raised the rank of an object from element's to pseudoClass's
C11_Witness ==
  /\ last.op = "pseudoClass" /\ last.err = NoError /\ ~last.facade
  /\ log[last.self][1].op = "element"
  /\ WeightRank(heap[last.self].weight) = 5

\* ----------------------------------------------------------------------- C12
\* C12 as stated: once an append on an object has thrown, every further append
\* to it of a category of the same or a lower rank than the object's throws.
C12_AfterFailureSameOrLowerFails ==
  [][(IsMethodAppend /\ throws[last'.self] > 0
        /\ Rank(last'.op) <= WeightRank(heap[last'.self].weight))
       => last'.err # NoError]_vars

\* C12 as amended: once an append on an object has thrown, every further
\* append to it of a category of a strictly lower rank than the object's
\* throws, and so does element, id or pseudoElement at the object's rank;
\* class, attr and pseudoClass at the object's rank still succeed.
C12_AfterFailureLowerFails ==
  [][(IsMethodAppend /\ throws[last'.self] > 0)
       => /\ Rank(last'.op) < WeightRank(heap[last'.self].weight) => Failed
          /\ (Rank(last'.op) = WeightRank(heap[last'.self].weight)
                /\ last'.op \in SingleOps) => Failed
          /\ (Rank(last'.op) = WeightRank(heap[last'.self].weight)
                /\ last'.op \in RepeatOps) => last'.err = NoError]_vars

\* a lower-rank append threw on an object on which an append had thrown before
C12_Witness ==
  /\ last.op \in AppendOps /\ last.err = OrderError
  /\ throws[last.self] = 2
  /\ Rank(last.op) < WeightRank(heap[last.self].weight)

\* ----------------------------------------------------------------------- C13
\* C13: a call that throws leaves every object as it was (text, flags, rank),
\* so the render that follows a failed append returns the text of the
\* appends that succeeded.
C13_FailedAppendChangesNothing ==
  [][/\ (IsCall /\ last'.err # NoError) => (heap' = heap /\ log' = log)
     /\ (IsStringify /\ last.err # NoError /\ last.self = last'.self
           /\ Appends(log[last'.self]) = log[last'.self])
        => last'.out = Fragments(log[last'.self])]_vars

\* append, failed append, render: the render returned the first fragment
C13_Witness ==
  /\ last.op = "stringify" /\ last.out # <<>>
  /\ calls = 3
  /\ throws[last.self] = 1
  /\ Len(log[last.self]) = 2

\* ----------------------------------------------------------------------- C14
\* C14: element or id on an object that already has it throws the uniqueness
\* error even when the object's rank is higher; the order error is thrown
\* for element or id only when the object does not have that category yet.
C14_UniquenessBeforeOrder ==
  [][(IsMethodAppend /\ last'.op \in {"element", "id"})
       => /\ HasAppended(log[last'.self], last'.op)
               => last'.err = UniquenessError
          /\ last'.err = OrderError
               => /\ ~HasAppended(log[last'.self], last'.op)
                  /\ Rank(last'.op) < WeightRank(heap[last'.self].weight)]_vars

\* element, class, element: both rules broken, the uniqueness error thrown
C14_Witness ==
  /\ last.op = "element" /\ last.err = UniquenessError
  /\ HasAppended(log[last.self], "element")
  /\ WeightRank(heap[last.self].weight) > 1

\* ----------------------------------------------------------------------- C15
\* C15: a set flag implies the rank reached its category (element: rank >= 1,
\* id: rank >= 2, pseudo-element: rank = 6), and after a successful
\* pseudoElement every later append to the object throws.
C15_FlagsImplyRank ==
  [][/\ \A j \in 1..Len(heap') :
          /\ heap'[j].existsElement => WeightRank(heap'[j].weight) >= 1
          /\ heap'[j].existsId => WeightRank(heap'[j].weight) >= 2
          /\ heap'[j].existsPseudoElement => WeightRank(heap'[j].weight) = 6
     /\ (IsMethodAppend /\ HasAppended(log[last'.self], "pseudoElement"))
        => Failed]_vars

\* a pseudoClass after a pseudoElement was refused
C15_Witness ==
  /\ last.op = "pseudoClass" /\ last.err = OrderError
  /\ heap[last.self].existsPseudoElement
  /\ HasAppended(log[last.self], "pseudoElement")

\* ----------------------------------------------------------------------- C16
IsCombine == IsCall /\ last'.op = "combine"
Drained(o) == [o EXCEPT !.string = <<>>]
WasRendered(l) == l # <<>> /\ l[Len(l)].op = "stringify"

\* the text the receiver of this combine step keeps from before the call
Kept ==
  IF last'.facade \/ last'.self \in {last'.s1, last'.s2}
  THEN <<>> ELSE heap[last'.self].string

\* C16 as stated: right after combine(left, c, right) with distinct operands
\* both operands hold the empty text, their flags and rank unchanged.
C16_CombineDrainsOperands ==
  [][(IsCombine /\ last'.s1 # last'.s2)
       => /\ heap'[last'.s1] = Drained(heap[last'.s1])
          /\ heap'[last'.s2] = Drained(heap[last'.s2])]_vars

\* C16 as amended: right after combine(left, c, right) with distinct operands,
\* neither of them the object combine was called on (never so for the
\* facade's combine), both operands hold the empty text; the flags and rank
\* of the operands are unchanged in every case; an operand used again in a
\* second combine contributes the empty string on its side.
C16_CombineDrainsOtherOperands ==
  [][(IsCombine /\ last'.s1 # last'.s2)
       => /\ last'.self \notin {last'.s1, last'.s2}
               => /\ heap'[last'.s1] = Drained(heap[last'.s1])
                  /\ heap'[last'.s2] = Drained(heap[last'.s2])
          /\ \A o \in {last'.s1, last'.s2} :
               /\ heap'[o].existsElement = heap[o].existsElement
               /\ heap'[o].existsId = heap[o].existsId
               /\ heap'[o].existsPseudoElement = heap[o].existsPseudoElement
               /\ heap'[o].weight = heap[o].weight
          /\ WasRendered(log[last'.s1])
               => heap'[last'.self].string =
                    Kept \o <<" ">> \o last'.arg \o <<" ">> \o heap[last'.s2].string
          /\ WasRendered(log[last'.s2])
               => heap'[last'.self].string =
                    Kept \o heap[last'.s1].string \o <<" ">> \o last'.arg \o <<" ">>]_vars

\* the operands of a first combine were combined again: ' + ' with both
\* sides empty was added after the first composite
C16_Witness ==
  /\ last.op = "combine" /\ last.s1 # last.s2
  /\ last.self \notin {last.s1, last.s2}
  /\ Len(log[last.s1]) = 3 /\ Len(log[last.s2]) = 3
  /\ heap[last.s1].string = <<>> /\ heap[last.s2].string = <<>>
  /\ heap[last.s1].existsElement /\ heap[last.s2].existsId
  /\ heap[last.self].string =
       <<"a", " ", "+", " ", "#", "a", " ", "+", " ">>

\* ----------------------------------------------------------------------- C17
\* the entries of the log l after its last render
RECURSIVE SinceRender(_)
SinceRender(l) ==
  IF l = <<>> \/ l[Len(l)].op = "stringify" THEN <<>>
  ELSE Append(SinceRender(SubSeq(l, 1, Len(l) - 1)), l[Len(l)])

\* C17: on an object that was rendered before and only had appends, a render
\* returns the fragments appended since the previous render, and none of
\* the fragments appended before it.
C17_RenderSincePrevious ==
  [][(IsStringify /\ OfCategory(log[last'.self], "stringify") # <<>>
        /\ OfCategory(log[last'.self], "combine") = <<>>)
       => last'.out = Fragments(SinceRender(log[last'.self]))]_vars

\* element, render, class, render: the second render returned the class only
C17_Witness ==
  /\ last.op = "stringify" /\ last.out = <<".", "a">>
  /\ Len(log[last.self]) = 4
  /\ log[last.self][1].op = "element"
  /\ log[last.self][2].op = "stringify"
  /\ log[last.self][3].op = "class"

\* ----------------------------------------------------------------------- C18
\* C18: combine never throws; the object the facade's combine returns has no
\* rank and no flags whatever its operands hold, so the first append of any
\* category to it succeeds and adds its fragment after the composite text.
C18_CombineResultUnranked ==
  [][/\ IsCombine => last'.err = NoError
     /\ (IsCombine /\ last'.facade)
        => /\ ~heap'[last'.self].existsElement
           /\ ~heap'[last'.self].existsId
           /\ ~heap'[last'.self].existsPseudoElement
           /\ heap'[last'.self].weight = Null
     /\ (IsMethodAppend /\ log[last'.self] # <<>>
           /\ log[last'.self][1].op = "combine"
           /\ Appends(log[last'.self]) = <<>>)
        => /\ last'.err = NoError
           /\ heap'[last'.self].string =
                heap[last'.self].string \o Fragment(last'.op, last'.arg)]_vars

\* element('b') succeeded on combine(x, '+', x), x made by id('a')
C18_Witness ==
  /\ last.op = "element" /\ last.err = NoError /\ ~last.facade
  /\ Len(log[last.self]) = 2
  /\ log[last.self][1].op = "combine"
  /\ heap[1].existsId
  /\ heap[last.self].string = <<"#", "a", " ", "+", " ", "b">>

\* ----------------------------------------------------------------------- C19
\* C19: combine(s, c, s) renders s as the left operand first, so the text it
\* adds is text(s) + ' ' + c + ' ' with nothing on the right.
C19_SameOperandTwice ==
  [][(IsCombine /\ last'.s1 = last'.s2)
       => /\ heap'[last'.self].string =
               Kept \o heap[last'.s1].string \o <<" ">> \o last'.arg \o <<" ">>
          /\ last'.self # last'.s1 => heap'[last'.s1].string = <<>>]_vars

\* the facade's combine(s, '+', s) with s = element('a') made 'a + '
C19_Witness ==
  /\ last.op = "combine" /\ last.facade /\ last.s1 = last.s2
  /\ log[last.s1][1] = Entry("element", <<"a">>)
  /\ heap[last.self].string = <<"a", " ", "+", " ">>

====
